---- MODULE Spec2Model ----
(***************************************************************************)
(* A model of the extractor package: the land-class split                  *)
(* (demeter_landclass_split.py, landclass_redistribute.py) and the GCAM    *)
(* reshape (to_demeter.py).  Tables are sequences of rows, a row is a      *)
(* function from column names to cells.                                    *)
(***************************************************************************)
EXTENDS Integers, Sequences, FiniteSets, TLC

VARIABLES
    pc,          \* which call has run: "init", "frac", "done"
    impl,        \* the entry point that ran: "none", "calc_observed_fraction",
                 \* "disaggregate_landclass", "process_basin", "extract_land"
    observed,    \* rows of the observed file
    projected,   \* rows of the projected file
    year_list,   \* the year columns the run processed (gcam_year_list / GCAM_YRS)
    obs_df,      \* the frame calc_observed_fraction returned
    out_df,      \* the frame disaggregate_landclass / process_basin returned
    raw,         \* rows the GCAM query returned
    decoded,     \* extract_land's df after decoding (line 164)
    piv,         \* the frame extract_land returned
    err          \* "none", or the exception the call raised

vars == <<pc, impl, observed, projected, year_list, obs_df, out_df, raw, decoded, piv, err>>

----------------------------------------------------------------------------
(* Numeric cells.  A cell is a binary64 value <<c, s, e, m>>: c is 0 for a  *)
(* finite value, 1 for an infinity and 2 for nan; s is the sign, 1 or -1;   *)
(* a finite value is s * m * 2^e with m an odd natural below 2^53 (empty    *)
(* for zero), written as its limbs in base 2^14, lowest first.  An int64    *)
(* cell is the binary64 cell of the same value: every integer of the        *)
(* tables converts exactly.  The operations round to nearest, ties to even, *)
(* as numpy's float64 arithmetic does.                                      *)

\* naturals of any size: sequences of limbs in base 2^14, lowest limb first
LimbBits == 14

Base == 16384

Pow2(k) == 2 ^ k

Limb(a, i) == IF i >= 1 /\ i <= Len(a) THEN a[i] ELSE 0

RECURSIVE Trim(_)
Trim(a) ==
    IF a = <<>> THEN a
    ELSE IF a[Len(a)] # 0 THEN a
    ELSE Trim(SubSeq(a, 1, Len(a) - 1))

RECURSIVE LimbLen(_)
LimbLen(x) == IF x = 0 THEN 0 ELSE 1 + LimbLen(x \div 2)

BitLen(a) == IF a = <<>> THEN 0 ELSE LimbBits * (Len(a) - 1) + LimbLen(a[Len(a)])

BitAt(a, j) == (Limb(a, (j \div LimbBits) + 1) \div Pow2(j % LimbBits)) % 2

LowBitsZero(a, k) ==
    /\ \A i \in 1..(k \div LimbBits) : Limb(a, i) = 0
    /\ Limb(a, (k \div LimbBits) + 1) % Pow2(k % LimbBits) = 0

ShiftRight(a, k) ==
    LET ql == k \div LimbBits
        r  == k % LimbBits
        p  == Pow2(r)
        up == Pow2(LimbBits - r)
    IN  IF k = 0 THEN a
        ELSE IF Len(a) <= ql THEN <<>>
        ELSE Trim(<<>> \o [i \in 1..(Len(a) - ql) |->
                 (a[i + ql] \div p) + (Limb(a, i + ql + 1) % p) * up])

ShiftLeft(a, k) ==
    LET ql == k \div LimbBits
        r  == k % LimbBits
        p  == Pow2(r)
        up == Pow2(LimbBits - r)
    IN  IF a = <<>> \/ k = 0 THEN a
        ELSE Trim(<<>> \o [i \in 1..(Len(a) + ql + 1) |->
                 IF i <= ql THEN 0
                 ELSE (Limb(a, i - ql) % up) * p + (Limb(a, i - ql - 1) \div up)])

RECURSIVE AddFrom(_, _, _, _)
AddFrom(a, b, i, carry) ==
    IF i > Len(a) /\ i > Len(b)
    THEN IF carry = 0 THEN <<>> ELSE <<carry>>
    ELSE LET t == Limb(a, i) + Limb(b, i) + carry
         IN  <<t % Base>> \o AddFrom(a, b, i + 1, t \div Base)

BigAdd(a, b) == AddFrom(a, b, 1, 0)

RECURSIVE SubFrom(_, _, _, _)
SubFrom(a, b, i, borrow) ==
    IF i > Len(a) THEN <<>>
    ELSE LET t == a[i] - Limb(b, i) - borrow
         IN  IF t < 0 THEN <<t + Base>> \o SubFrom(a, b, i + 1, 1)
             ELSE <<t>> \o SubFrom(a, b, i + 1, 0)

\* a - b for a >= b
BigSub(a, b) == Trim(SubFrom(a, b, 1, 0))

RECURSIVE CmpFrom(_, _, _)
CmpFrom(a, b, i) ==
    IF i = 0 THEN 0
    ELSE IF a[i] < b[i] THEN -1
    ELSE IF a[i] > b[i] THEN 1
    ELSE CmpFrom(a, b, i - 1)

BigCmp(a, b) ==
    IF Len(a) < Len(b) THEN -1
    ELSE IF Len(a) > Len(b) THEN 1
    ELSE CmpFrom(a, b, Len(a))

RECURSIVE ColSum(_, _, _, _)
ColSum(a, b, k, i) ==
    IF i > Len(a) \/ i > k THEN 0
    ELSE a[i] * Limb(b, k + 1 - i) + ColSum(a, b, k, i + 1)

RECURSIVE MulFrom(_, _, _, _)
MulFrom(a, b, k, carry) ==
    IF k > Len(a) + Len(b) THEN <<>>
    ELSE LET t == ColSum(a, b, k, 1) + carry
         IN  <<t % Base>> \o MulFrom(a, b, k + 1, t \div Base)

\* a times the one-limb number x
RECURSIVE MulSmallFrom(_, _, _, _)
MulSmallFrom(a, x, i, carry) ==
    IF i > Len(a) THEN IF carry = 0 THEN <<>> ELSE <<carry>>
    ELSE LET t == a[i] * x + carry
         IN  <<t % Base>> \o MulSmallFrom(a, x, i + 1, t \div Base)

BigMul(a, b) ==
    IF Len(b) = 1 THEN MulSmallFrom(a, b[1], 1, 0)
    ELSE IF Len(a) = 1 THEN MulSmallFrom(b, a[1], 1, 0)
    ELSE Trim(MulFrom(a, b, 1, 0))

\* <<quotient, remainder>> of a by a one-limb divisor d, from the top limb down;
\* q holds the quotient limbs found so far, without leading zeros
RECURSIVE DivSmallFrom(_, _, _, _, _)
DivSmallFrom(a, d, i, q, r) ==
    IF i = 0 THEN <<q, r>>
    ELSE LET t == r * Base + a[i]
         IN  IF t < d /\ q = <<>> THEN DivSmallFrom(a, d, i - 1, q, t)
             ELSE DivSmallFrom(a, d, i - 1, <<t \div d>> \o q, t % d)

\* one step of the long division by b, a divisor of two limbs or more whose top
\* limb has its top bit set: <<q, r>>, the quotient limb and the remainder of t, a
\* number below b * Base.  The quotient of the top two limbs of t by the top limb
\* of b is the limb or exceeds it by one or two.
DivStep(t, b) ==
    LET n  == Len(b)
        t2 == Limb(t, n + 1) * Base + Limb(t, n)
        qh == IF t2 \div b[n] > Base - 1 THEN Base - 1 ELSE t2 \div b[n]
        p0 == Trim(MulSmallFrom(b, qh, 1, 0))
        p1 == BigSub(p0, b)
    IN  IF BigCmp(p0, t) <= 0 THEN <<qh, BigSub(t, p0)>>
        ELSE IF BigCmp(p1, t) <= 0 THEN <<qh - 1, BigSub(t, p1)>>
        ELSE <<qh - 2, BigSub(t, BigSub(p1, b))>>

\* <<quotient, remainder>> of a by such a divisor b, limb by limb from the top;
\* q holds the quotient limbs found so far, without leading zeros
RECURSIVE DivBigFrom(_, _, _, _, _)
DivBigFrom(a, b, i, q, r) ==
    IF i = 0 THEN <<q, r>>
    ELSE LET qr == DivStep(Trim(<<a[i]>> \o r), b)
         IN  IF qr[1] = 0 /\ q = <<>> THEN DivBigFrom(a, b, i - 1, q, qr[2])
             ELSE DivBigFrom(a, b, i - 1, <<qr[1]>> \o q, qr[2])

\* <<quotient, whether a remainder is left>> of a by b
BigDivMod(a, b) ==
    IF Len(b) = 1
    THEN LET qr == DivSmallFrom(a, b[1], Len(a), <<>>, 0)
         IN  <<qr[1], qr[2] # 0>>
    ELSE LET sh == LimbBits - LimbLen(b[Len(b)])
             n  == ShiftLeft(a, sh)
             qr == DivBigFrom(n, ShiftLeft(b, sh), Len(n), <<>>, <<>>)
         IN  <<qr[1], qr[2] # <<>>>>

RECURSIVE LimbTrailingZeros(_)
LimbTrailingZeros(x) == IF x % 2 = 1 THEN 0 ELSE 1 + LimbTrailingZeros(x \div 2)

RECURSIVE TrailingZeros(_, _)
TrailingZeros(a, i) ==
    IF a[i] = 0 THEN LimbBits + TrailingZeros(a, i + 1) ELSE LimbTrailingZeros(a[i])

\* the cells
NaN == <<2, 1, 0, <<>>>>

Inf(s) == <<1, s, 0, <<>>>>

SignedZero(s) == <<0, s, 0, <<>>>>

Zero == SignedZero(1)

One == <<0, 1, 0, <<1>>>>

IsNaN(x) == x[1] = 2

IsFinite(x) == x[1] = 0

IsZero(x) == x[1] = 0 /\ x[4] = <<>>

MaxExp == 1024

MinExp == -1074

Precision == 53

\* the cell of value s * a * 2^e, a a nonzero natural that needs no rounding
Canon(s, a, e) ==
    IF BitLen(a) + e > MaxExp THEN Inf(s)
    ELSE IF a[1] % 2 = 1 THEN <<0, s, e, a>>
    ELSE LET tz == TrailingZeros(a, 1)
         IN  <<0, s, e + tz, ShiftRight(a, tz)>>

Max(i, j) == IF i >= j THEN i ELSE j

\* round to nearest, ties to even
Round(s, a, e, sticky) ==
    LET k == Max(BitLen(a) - Precision, MinExp - e)
    IN  IF a = <<>> /\ ~sticky THEN SignedZero(s)
        ELSE IF k <= 0 THEN Canon(s, a, e)
        ELSE LET q    == ShiftRight(a, k)
                 half == BitAt(a, k - 1) = 1
                 rest == sticky \/ ~LowBitsZero(a, k - 1)
                 up   == half /\ (rest \/ Limb(q, 1) % 2 = 1)
                 q2   == IF up THEN BigAdd(q, <<1>>) ELSE q
             IN  IF q2 = <<>> THEN SignedZero(s) ELSE Canon(s, q2, e + k)

\* the cell of an integer below 2^31 in size
FromInt(n) ==
    LET a == IF n < 0 THEN -n ELSE n
        s == IF n < 0 THEN -1 ELSE 1
    IN  IF n = 0 THEN Zero
        ELSE Canon(s, Trim(<<a % Base, (a \div Base) % Base, a \div (Base * Base)>>), 0)

\* -x
Neg(x) == IF IsNaN(x) THEN x ELSE <<x[1], -x[2], x[3], x[4]>>

\* x * y (nan propagates, inf * 0 is nan)
Mul(x, y) ==
    IF IsNaN(x) \/ IsNaN(y) THEN NaN
    ELSE IF x[1] = 1 \/ y[1] = 1
         THEN IF IsZero(x) \/ IsZero(y) THEN NaN ELSE Inf(x[2] * y[2])
    ELSE IF IsZero(x) \/ IsZero(y) THEN SignedZero(x[2] * y[2])
    ELSE Round(x[2] * y[2], BigMul(x[4], y[4]), x[3] + y[3], FALSE)

\* x + y (inf + -inf and anything + nan are nan)
Add(x, y) ==
    IF IsNaN(x) \/ IsNaN(y) THEN NaN
    ELSE IF x[1] = 1 THEN IF y[1] = 1 /\ y[2] # x[2] THEN NaN ELSE x
    ELSE IF y[1] = 1 THEN y
    ELSE IF IsZero(x) THEN IF IsZero(y) /\ x[2] # y[2] THEN Zero ELSE y
    ELSE IF IsZero(y) THEN x
    ELSE LET tx == x[3] + BitLen(x[4])
             ty == y[3] + BitLen(y[4])
             e  == IF x[3] < y[3] THEN x[3] ELSE y[3]
             a  == ShiftLeft(x[4], x[3] - e)
             b  == ShiftLeft(y[4], y[3] - e)
             c  == BigCmp(a, b)
         IN  IF tx - ty > 64 THEN x
             ELSE IF ty - tx > 64 THEN y
             ELSE IF x[2] = y[2] THEN Round(x[2], BigAdd(a, b), e, FALSE)
             ELSE IF c = 0 THEN Zero
             ELSE IF c > 0 THEN Round(x[2], BigSub(a, b), e, FALSE)
             ELSE Round(y[2], BigSub(b, a), e, FALSE)

\* x / y (0/0 is nan, a/0 is inf or -inf, never an error)
Div(x, y) ==
    IF IsNaN(x) \/ IsNaN(y) THEN NaN
    ELSE IF x[1] = 1 THEN IF y[1] = 1 THEN NaN ELSE Inf(x[2] * y[2])
    ELSE IF y[1] = 1 THEN SignedZero(x[2] * y[2])
    ELSE IF IsZero(y) THEN IF IsZero(x) THEN NaN ELSE Inf(x[2] * y[2])
    ELSE IF IsZero(x) THEN SignedZero(x[2] * y[2])
    ELSE LET k  == Max(0, Precision + 3 + BitLen(y[4]) - BitLen(x[4]))
             qr == BigDivMod(ShiftLeft(x[4], k), y[4])
         IN  Round(x[2] * y[2], qr[1], x[3] - y[3] - k, qr[2])

\* the cell of the float division n / d of two integers
Num(n, d) == Div(FromInt(n), FromInt(d))

\* DataFrame.fillna(0) on one cell: nan becomes 0, every other value is kept
FillNa(x) == IF IsNaN(x) THEN Zero ELSE x

\* a pandas sum (skipna=True): the cells added from the first on, nan cells left out
RECURSIVE SumFrom(_, _, _)
SumFrom(s, i, acc) ==
    IF i > Len(s) THEN acc
    ELSE SumFrom(s, i + 1, IF IsNaN(s[i]) THEN acc ELSE Add(acc, s[i]))

SumCells(s) == SumFrom(s, 1, Zero)

----------------------------------------------------------------------------
(* Sequence helpers *)

RECURSIVE Flatten(_)
Flatten(ss) == IF ss = <<>> THEN <<>> ELSE Head(ss) \o Flatten(Tail(ss))

Range(s) == {s[i] : i \in 1..Len(s)}

\* all sequences over S of length at most n
SeqUpTo(S, n) == UNION {[1..k -> S] : k \in 0..n}

\* a run that returned no frame from extract_land
NoTable == [columns |-> <<>>, rows |-> {}]

----------------------------------------------------------------------------
(* The land-class split: configuration of a run (the constructor's         *)
(* arguments, as in the class docstring) and the class constants.          *)

REGION_ID_FIELD == "region_id"

PRJ_METRIC_ID_FIELD == "metric_id"

PRJ_LANDCLASS_FIELD == "landclass"

\* metric: the subregion column of the observed file
metric == "basin_id"

target_landclass == "RockIceDesert"

observed_landclasses == <<"snow", "sparse">>

\* 'reg_{}'.format(metric.split('_')[0])
subregion_field == "reg_" \o "basin"

\* 'frac_{}'.format(lc)
FracName(lc) == "frac_" \o lc

\* [str(i) for i in range(2010, 2105, 5)]
GCAM_YRS == [i \in 1..19 |-> ToString(2010 + 5 * (i - 1))]

\* gcam_year_list as the constructor stores it: [str(i) for i in gcam_year_list]
StrYears(yrs) == [i \in 1..Len(yrs) |-> ToString(yrs[i])]

\* region_id.astype(str) + '_' + metric.astype(str)
CompositeKey(region, sub) == ToString(region) \o "_" \o ToString(sub)

----------------------------------------------------------------------------
(* Input files of the split.  MaxObsRows and MaxPrjRows bound the tables.  *)

MaxObsRows == 2

MaxPrjRows == 2

RegionIds == {1}

SubregionIds == {10, 20}

\* the (snow, sparse) cells of an observed row: none of either class, a 30 / 110
\* split, an empty snow cell of the file (read_csv gives nan), and two values
\* that cancel
ObsCells ==
    {<<Zero, Zero>>, <<FromInt(30), FromInt(110)>>, <<NaN, FromInt(70)>>,
     <<FromInt(30), FromInt(-30)>>}

ObsRow(r, b, v) == [region_id |-> r, basin_id |-> b, snow |-> v[1], sparse |-> v[2]]

\* the rows of the observed file: every pair of cells in subregion 10, the 30 / 110
\* split in the other subregions
ObsRows ==
    {ObsRow(r, 10, v) : r \in RegionIds, v \in ObsCells}
        \cup {ObsRow(r, b, <<FromInt(30), FromInt(110)>>) : r \in RegionIds, b \in SubregionIds}

PrjLandclasses == {target_landclass, "Corn"}

\* the year columns of the projected file: the default years of the reshape
PrjYearCols == GCAM_YRS

PrjColumns ==
    {REGION_ID_FIELD, PRJ_METRIC_ID_FIELD, PRJ_LANDCLASS_FIELD} \cup Range(PrjYearCols)

\* a projected row: a series of 100 in the first year growing by 10 a year
PrjRow(r, m, lc) ==
    [c \in PrjColumns |->
        IF c = REGION_ID_FIELD THEN r
        ELSE IF c = PRJ_METRIC_ID_FIELD THEN m
        ELSE IF c = PRJ_LANDCLASS_FIELD THEN lc
        ELSE LET i == CHOOSE j \in 1..Len(PrjYearCols) : PrjYearCols[j] = c
             IN  FromInt(100 + 10 * (i - 1))]

\* the rows of the projected file: the target class in every subregion, the other
\* classes in subregion 10
PrjRows ==
    {PrjRow(r, m, target_landclass) : r \in RegionIds, m \in SubregionIds}
        \cup {PrjRow(r, 10, lc) : r \in RegionIds, lc \in PrjLandclasses}

\* the year lists a caller of disaggregate_landclass passes: two years of the
\* projected file, and a year the file has no column for
GcamYearLists == {<<2010, 2020>>, <<2005>>}

\* groupby(...).sum(axis=1), line 55 (line 53): the pandas releases before 1.0 take
\* the keyword and return the group sums (TRUE); from 1.0 on GroupBy.sum has no
\* such keyword and the call raises TypeError (FALSE).  src/ pins no release.
SumTakesAxis == {TRUE, FALSE}

----------------------------------------------------------------------------
(* calc_observed_fraction *)

\* the (region_id, metric) keys of a frame, as groupby orders them
KeyLess(a, b) == a[1] < b[1] \/ (a[1] = b[1] /\ a[2] < b[2])

RECURSIVE SortKeys(_)
SortKeys(S) ==
    IF S = {} THEN <<>>
    ELSE LET m == CHOOSE k \in S : \A j \in S : j = k \/ KeyLess(k, j)
         IN  <<m>> \o SortKeys(S \ {m})

GroupKeys(df) == SortKeys({<<df[i][REGION_ID_FIELD], df[i][metric]>> : i \in 1..Len(df)})

\* groupby(...).first(): the first row of the key instead of the sum
GroupFirst(df, k, lc) ==
    LET rows == SelectSeq(df, LAMBDA r : <<r[REGION_ID_FIELD], r[metric]>> = k)
    IN  rows[1][lc]

\* groupby([region_id, metric]).sum(): the sum of column lc over the rows of key k
GroupSum(df, k, lc) ==
    LET rows == SelectSeq(df, LAMBDA r : <<r[REGION_ID_FIELD], r[metric]>> = k)
    IN  SumCells([i \in 1..Len(rows) |-> rows[i][lc]])

\* gdf['total'] = gdf[observed_landclasses].sum(axis=1)
GroupTotal(df, k) ==
    SumCells([j \in 1..Len(observed_landclasses) |-> GroupSum(df, k, observed_landclasses[j])])

ObsDfColumns == {subregion_field} \cup {FracName(lc) : lc \in Range(observed_landclasses)}

\* one row of the returned frame: the key and frac_<lc> = lc / total, nan filled with 0
FractionRow(df, k) ==
    [c \in ObsDfColumns |->
        IF c = subregion_field THEN CompositeKey(k[1], k[2])
        ELSE LET lc == CHOOSE l \in Range(observed_landclasses) : FracName(l) = c
             IN  FillNa(Div(GroupSum(df, k, lc), GroupTotal(df, k)))]

\* the call on the observed frame df: the exception it raises ("none" when it
\* returns) and the frame it returns.  Line 55 raises TypeError where GroupBy.sum
\* takes no axis keyword.  Where it takes it, a frame without rows has no groups
\* and the sum returns a frame without columns, so that the key of line 59,
\* gdf['region_id'], raises KeyError.
calc_observed_fraction(df, takes_axis) ==
    LET keys == GroupKeys(df)
    IN  IF ~takes_axis THEN [err |-> "TypeError", gdf |-> <<>>]
        ELSE IF df = <<>> THEN [err |-> "KeyError", gdf |-> <<>>]
        ELSE [err |-> "none", gdf |-> [i \in 1..Len(keys) |-> FractionRow(df, keys[i])]]

----------------------------------------------------------------------------
(* disaggregate_landclass and process_basin *)

\* prj_df[subregion_field] = region_id.astype(str) + '_' + metric_id.astype(str)
AddKey(df) ==
    [i \in 1..Len(df) |->
        (subregion_field :> CompositeKey(df[i][REGION_ID_FIELD], df[i][PRJ_METRIC_ID_FIELD]))
            @@ df[i]]

\* the merge with how='inner': the left rows whose key the right frame lacks are lost
MergeInner(left, right) ==
    Flatten([i \in 1..Len(left) |->
        LET m == SelectSeq(right, LAMBDA r : r[subregion_field] = left[i][subregion_field])
        IN  [j \in 1..Len(m) |-> left[i] @@ m[j]]])

\* pd.merge(left, right, on=subregion_field, how='left'): every left row, in order,
\* once per right row of its key, or once with nan in the right columns
MergeLeft(left, right) ==
    Flatten([i \in 1..Len(left) |->
        LET m == SelectSeq(right, LAMBDA r : r[subregion_field] = left[i][subregion_field])
        IN  IF m = <<>>
            THEN <<left[i] @@ [c \in ObsDfColumns \ {subregion_field} |-> NaN]>>
            ELSE [j \in 1..Len(m) |-> left[i] @@ m[j]]])

\* a year loop that stops after the first year
ScaleFirstYear(row, lc, yrs) ==
    IF yrs = <<>> THEN row
    ELSE [row EXCEPT ![Head(yrs)] = Mul(@, row[FracName(lc)])]

\* for yr in years: idf[yr] *= idf['frac_<lc>'], on one row
RECURSIVE ScaleYears(_, _, _)
ScaleYears(row, lc, yrs) ==
    IF yrs = <<>> THEN row
    ELSE ScaleYears([row EXCEPT ![Head(yrs)] = Mul(@, row[FracName(lc)])], lc, Tail(yrs))

\* idf = lc_df.copy(); idf['landclass'] = lc; the year loop
ClassRows(lc_df, lc, yrs) ==
    [i \in 1..Len(lc_df) |->
        ScaleYears([lc_df[i] EXCEPT ![PRJ_LANDCLASS_FIELD] = lc], lc, yrs)]

\* for lc in observed_landclasses: out_df = pd.concat([idf, out_df])
RECURSIVE ConcatClasses(_, _, _, _)
ConcatClasses(lc_df, out, lcs, yrs) ==
    IF lcs = <<>> THEN out
    ELSE ConcatClasses(lc_df, ClassRows(lc_df, Head(lcs), yrs) \o out, Tail(lcs), yrs)

\* a split that starts from the whole merged frame, the target rows included
SplitFrameKeepsTarget(prj, obs, yrs) ==
    LET prj_df == MergeLeft(AddKey(prj), obs)
        lc_df  == SelectSeq(prj_df, LAMBDA r : r[PRJ_LANDCLASS_FIELD] = target_landclass)
    IN  ConcatClasses(lc_df, prj_df, observed_landclasses, yrs)

\* the frame after the loop over observed_landclasses
SplitFrame(prj, obs, yrs) ==
    LET prj_df == MergeLeft(AddKey(prj), obs)
        lc_df  == SelectSeq(prj_df, LAMBDA r : r[PRJ_LANDCLASS_FIELD] = target_landclass)
        rest   == SelectSeq(prj_df, LAMBDA r : r[PRJ_LANDCLASS_FIELD] # target_landclass)
    IN  ConcatClasses(lc_df, rest, observed_landclasses, yrs)

\* out_df.drop(cols, axis=1)
DropColumns(df, cols) ==
    [i \in 1..Len(df) |-> [c \in (DOMAIN df[i]) \ cols |-> df[i][c]]]

\* idf[yr] raises KeyError when yr is no column of the projected file
MissingYear(yrs) == \E i \in 1..Len(yrs) : yrs[i] \notin PrjColumns

disaggregate_landclass(prj, obs, yrs) ==
    DropColumns(SplitFrame(prj, obs, yrs), ObsDfColumns)

process_basin(prj, obs) == SplitFrame(prj, obs, GCAM_YRS)

----------------------------------------------------------------------------
(* The split as a state machine.  The initial state holds the two input     *)
(* files and no result; a behaviour makes one call: the fraction table on   *)
(* its own, the constructor of demeter_landclass_split.py, or               *)
(* process_basin() of landclass_redistribute.py.                            *)

InitSplit ==
    /\ pc = "init"
    /\ impl = "none"
    /\ observed \in SeqUpTo(ObsRows, MaxObsRows)
    /\ projected \in SeqUpTo(PrjRows, MaxPrjRows)
    /\ year_list = <<>>
    /\ obs_df = <<>>
    /\ out_df = <<>>
    /\ raw = <<>>
    /\ decoded = <<>>
    /\ piv = NoTable
    /\ err = "none"

\* a call of calc_observed_fraction() on its own; an exception leaves no frame
CalcObservedFraction ==
    /\ pc = "init"
    /\ pc' = "frac"
    /\ impl' = "calc_observed_fraction"
    /\ \E ok \in SumTakesAxis :
        LET res == calc_observed_fraction(observed, ok)
        IN  /\ err' = res.err
            /\ obs_df' = IF res.err = "none" THEN res.gdf ELSE obs_df
    /\ UNCHANGED <<observed, projected, year_list, out_df, raw, decoded, piv>>

\* demeter_landclass_split.py: the constructor, lines 30-42, whose last line runs
\* disaggregate_landclass(), lines 87-121; an exception leaves no frame behind
DisaggregateLandclass ==
    /\ pc = "init"
    /\ pc' = "done"
    /\ impl' = "disaggregate_landclass"
    /\ \E yrs \in GcamYearLists, ok \in SumTakesAxis :
        LET res == calc_observed_fraction(observed, ok)
        IN  /\ year_list' = StrYears(yrs)
            /\ IF res.err # "none"
               THEN err' = res.err /\ obs_df' = obs_df /\ out_df' = out_df
               ELSE /\ obs_df' = res.gdf
                    /\ IF MissingYear(StrYears(yrs))
                       THEN err' = "KeyError" /\ out_df' = out_df
                       ELSE /\ err' = err
                            /\ out_df' = disaggregate_landclass(projected, res.gdf, StrYears(yrs))
    /\ UNCHANGED <<observed, projected, raw, decoded, piv>>

\* landclass_redistribute.py: process_basin(), lines 82-118
ProcessBasin ==
    /\ pc = "init"
    /\ pc' = "done"
    /\ impl' = "process_basin"
    /\ year_list' = GCAM_YRS
    /\ \E ok \in SumTakesAxis :
        LET res == calc_observed_fraction(observed, ok)
        IN  IF res.err # "none"
            THEN err' = res.err /\ obs_df' = obs_df /\ out_df' = out_df
            ELSE /\ obs_df' = res.gdf
                 /\ IF MissingYear(GCAM_YRS)
                    THEN err' = "KeyError" /\ out_df' = out_df
                    ELSE /\ err' = err
                         /\ out_df' = process_basin(projected, res.gdf)
    /\ UNCHANGED <<observed, projected, raw, decoded, piv>>

NextSplit == CalcObservedFraction \/ DisaggregateLandclass \/ ProcessBasin

SpecSplit == InitSplit /\ [][NextSplit]_vars

----------------------------------------------------------------------------
(* Vocabulary of the claims about the split *)

Count(s, x) == Cardinality({i \in 1..Len(s) : s[i] = x})

\* a finished run of one of the two split implementations
SplitDone == pc = "done" /\ impl \in {"disaggregate_landclass", "process_basin"}

\* the output rows, read on the columns of the projected file
OutRows == [i \in 1..Len(out_df) |-> [c \in PrjColumns |-> out_df[i][c]]]

IsTarget(row) == row[PRJ_LANDCLASS_FIELD] = target_landclass

TargetIdx == {i \in 1..Len(projected) : IsTarget(projected[i])}

PassIdx == {i \in 1..Len(projected) : ~IsTarget(projected[i])}

PrjKey(row) == CompositeKey(row[REGION_ID_FIELD], row[PRJ_METRIC_ID_FIELD])

ObsKey(row) == CompositeKey(row[REGION_ID_FIELD], row[metric])

ObservedKeys == {ObsKey(observed[i]) : i \in 1..Len(observed)}

\* the sum of one class over the observed rows of a composite key
ClassSum(k, lc) ==
    LET rows == SelectSeq(observed, LAMBDA r : ObsKey(r) = k)
    IN  SumCells([i \in 1..Len(rows) |-> rows[i][lc]])

\* the combined total of the listed classes at a composite key
KeyTotal(k) ==
    SumCells([j \in 1..Len(observed_landclasses) |-> ClassSum(k, observed_landclasses[j])])

\* the fraction the fraction table holds for a key and a class; nan when the key has no row
FracOf(k, lc) ==
    LET m == {j \in 1..Len(obs_df) : obs_df[j][subregion_field] = k}
    IN  IF m = {} THEN NaN ELSE obs_df[CHOOSE j \in m : TRUE][FracName(lc)]

\* the replacement of target row t for class lc when the years yrs are scaled
ExpectedRow(t, lc, yrs) ==
    [c \in PrjColumns |->
        IF c = PRJ_LANDCLASS_FIELD THEN lc
        ELSE IF c \in Range(yrs) THEN Mul(t[c], FracOf(PrjKey(t), lc))
        ELSE t[c]]

NumClasses == Len(observed_landclasses)

\* the processed years are columns of the projected file
YearsAreColumns == ~MissingYear(year_list)

\* |x| <= |y| for two finite cells: by the place of the top bit, then by the
\* mantissas brought to one exponent
AbsLeq(x, y) ==
    LET tx == x[3] + BitLen(x[4])
        ty == y[3] + BitLen(y[4])
        e  == IF x[3] < y[3] THEN x[3] ELSE y[3]
    IN  IF IsZero(x) THEN TRUE
        ELSE IF IsZero(y) THEN FALSE
        ELSE IF tx # ty THEN tx < ty
        ELSE BigCmp(ShiftLeft(x[4], x[3] - e), ShiftLeft(y[4], y[3] - e)) <= 0

\* two finite cells that differ by no more than 2^-40 of the second: equal but for
\* the rounding of a few binary64 operations
Close(x, y) ==
    /\ IsFinite(x) /\ IsFinite(y)
    /\ AbsLeq(Add(x, Neg(y)), Mul(y, <<0, 1, -40, <<1>>>>))

\* the year-y values of the rows that replaced the target rows of key k, and of
\* those target rows
NewValues(k, y) ==
    LET new == SelectSeq(OutRows,
                   LAMBDA r : /\ PrjKey(r) = k
                              /\ r[PRJ_LANDCLASS_FIELD] \in Range(observed_landclasses))
    IN  [j \in 1..Len(new) |-> new[j][y]]

OldValues(k, y) ==
    LET old == SelectSeq(projected, LAMBDA r : PrjKey(r) = k /\ IsTarget(r))
    IN  [j \in 1..Len(old) |-> old[j][y]]

\* the composite keys of the target rows that the observed table holds with a
\* nonzero combined total
SplitKeys ==
    {k \in {PrjKey(projected[i]) : i \in TargetIdx} :
        k \in ObservedKeys /\ ~IsZero(KeyTotal(k))}

----------------------------------------------------------------------------
(* C1 as claimed: mass conservation.  After a split, for every composite    *)
(* key that the observed table holds with a nonzero combined total and      *)
(* every processed year, the year values of the rows that replaced the      *)
(* target rows of that key, added up over all fine-grained classes, EQUAL   *)
(* the year values of those target rows.                                    *)
C1_AsClaimed ==
    (SplitDone /\ err = "none") =>
        \A k \in SplitKeys : \A y \in 1..Len(year_list) :
            SumCells(NewValues(k, year_list[y])) = SumCells(OldValues(k, year_list[y]))

(* C1 amended: as claimed, but the two sums are equal up to the rounding of *)
(* the binary64 products and additions (within 2^-40 of the value), not to  *)
(* the last bit.                                                            *)
C1_MassConservation ==
    (SplitDone /\ err = "none") =>
        \A k \in SplitKeys : \A y \in 1..Len(year_list) :
            Close(SumCells(NewValues(k, year_list[y])), SumCells(OldValues(k, year_list[y])))

\* C1 witness: a target row split 30 / 110; its value 120 of year 2020 becomes two
\* values that add up to 120 but for the last bit
C1_Witness ==
    /\ SplitDone /\ err = "none"
    /\ "2020" \in Range(year_list)
    /\ \E i \in TargetIdx :
        /\ FracOf(PrjKey(projected[i]), "snow") = Num(30, 140)
        /\ FracOf(PrjKey(projected[i]), "sparse") = Num(110, 140)
        /\ KeyTotal(PrjKey(projected[i])) = FromInt(140)
        /\ projected[i]["2020"] = FromInt(120)
        /\ \E a, b \in 1..Len(out_df) :
            /\ out_df[a]["landclass"] = "snow"
            /\ out_df[a]["2020"] = Mul(FromInt(120), Num(30, 140))
            /\ out_df[b]["landclass"] = "sparse"
            /\ out_df[b]["2020"] = Mul(FromInt(120), Num(110, 140))
            /\ Add(out_df[a]["2020"], out_df[b]["2020"]) # FromInt(120)
            /\ Close(Add(out_df[a]["2020"], out_df[b]["2020"]), FromInt(120))

----------------------------------------------------------------------------
(* C2 as claimed: no output row has the target class, the output has one    *)
(* row per pass-through row and N rows per target row, and every target row *)
(* is replaced, for each fine-grained class, by its copy with that          *)
(* landclass and EVERY year value multiplied by the class's fraction.       *)
C2_Replaced(yrs) ==
    /\ \A j \in 1..Len(out_df) : ~IsTarget(out_df[j])
    /\ Len(out_df) = Cardinality(PassIdx) + NumClasses * Cardinality(TargetIdx)
    /\ \A n \in 1..NumClasses :
        LET lc  == observed_landclasses[n]
            tgt == SelectSeq(projected, IsTarget)
            exp == <<>> \o [i \in 1..Len(tgt) |-> ExpectedRow(tgt[i], lc, yrs)]
            out == <<>> \o OutRows
        IN  \A i \in 1..Len(exp) : Count(out, exp[i]) = Count(exp, exp[i])

C2_AsClaimed == (SplitDone /\ err = "none") => C2_Replaced(PrjYearCols)

(* C2 amended: as claimed, but only the year values of the processed years  *)
(* (gcam_year_list, or GCAM_YRS in process_basin) are multiplied; the other *)
(* year columns of a replacement row hold the target row's values.          *)
C2_ReplacedProcessedYears == (SplitDone /\ err = "none") => C2_Replaced(year_list)

\* C2 witness: a table with a target row and a pass-through row, split into 3 rows
C2_Witness ==
    /\ SplitDone /\ err = "none"
    /\ Cardinality(TargetIdx) = 1 /\ Cardinality(PassIdx) = 1
    /\ Len(out_df) = 3
    /\ PrjKey(projected[CHOOSE i \in TargetIdx : TRUE]) \in ObservedKeys
    /\ year_list # PrjYearCols

----------------------------------------------------------------------------
(* C3 as claimed: a split whose processed years are columns of the          *)
(* projected file raises no error; every projected row whose landclass is   *)
(* not the target appears in its output exactly as often as in the input,   *)
(* with the same landclass, ids and year values, whether or not its key is  *)
(* in the observed table; when no projected row has the target class the    *)
(* output rows are the input rows.                                          *)
C3_PassThrough ==
    (SplitDone /\ YearsAreColumns) =>
        /\ err = "none"
        /\ \A i \in PassIdx : Count(OutRows, projected[i]) = Count(projected, projected[i])
        /\ (TargetIdx = {}) => OutRows = projected

----------------------------------------------------------------------------
(* C4: the fraction table has exactly one row per distinct (region-id,      *)
(* metric) key of the observed table, and at every key whose combined total *)
(* is nonzero each fraction is class-sum / total and the fractions sum to 1.*)
C4_Fractions ==
    (pc = "frac" /\ err = "none") =>
        /\ Len(obs_df) = Cardinality(ObservedKeys)
        /\ \A k \in ObservedKeys :
            /\ Cardinality({j \in 1..Len(obs_df) : obs_df[j][subregion_field] = k}) = 1
            /\ (~IsZero(KeyTotal(k))) =>
                /\ \A n \in 1..NumClasses :
                    LET lc == observed_landclasses[n]
                    IN  /\ IsFinite(FracOf(k, lc))
                        /\ FracOf(k, lc) = Div(ClassSum(k, lc), KeyTotal(k))
                /\ SumCells([n \in 1..NumClasses |-> FracOf(k, observed_landclasses[n])]) = One

\* C4 witness: one key summed over two observed rows, (30, 110) and (30, -30), to
\* the fractions 60/140 and 80/140
C4_Witness ==
    /\ pc = "frac" /\ err = "none"
    /\ Len(observed) = 2 /\ Len(obs_df) = 1
    /\ obs_df[1]["frac_snow"] = Num(60, 140)
    /\ obs_df[1]["frac_sparse"] = Num(80, 140)

----------------------------------------------------------------------------
(* C5 as claimed: at every key whose combined total is zero, every fraction *)
(* of the key's row is 0 (not nan, not infinite), whatever the class sums.  *)
C5_ZeroTotal ==
    (pc = "frac" /\ err = "none") =>
        \A k \in ObservedKeys :
            IsZero(KeyTotal(k)) =>
                \A n \in 1..NumClasses : IsZero(FracOf(k, observed_landclasses[n]))

----------------------------------------------------------------------------
(* C11 as claimed: after a split by either implementation, every row of the *)
(* output has exactly the columns of the projected file: the composite-key  *)
(* column 'reg_<metric>' and the 'frac_<class>' columns are absent.         *)
C11_OutputSchema ==
    (SplitDone /\ err = "none") =>
        \A j \in 1..Len(out_df) :
            /\ DOMAIN out_df[j] = PrjColumns
            /\ subregion_field \notin DOMAIN out_df[j]
            /\ \A n \in 1..NumClasses : FracName(observed_landclasses[n]) \notin DOMAIN out_df[j]

----------------------------------------------------------------------------
\* the rows that replaced the target rows of composite key k
ReplacementRows(k) ==
    SelectSeq(OutRows, LAMBDA r : /\ PrjKey(r) = k
                                  /\ r[PRJ_LANDCLASS_FIELD] \in Range(observed_landclasses))

\* the number of target rows of composite key k
TargetsOf(k) == Cardinality({i \in TargetIdx : PrjKey(projected[i]) = k})

(* C12 as claimed, on the runs that complete: the join keeps the number of  *)
(* projected rows, so the output has one row per pass-through row and N per *)
(* target row; the N replacement rows of a target row whose composite key   *)
(* the fraction table lacks hold null in every processed year, and those of *)
(* a target row whose key is observed with a zero combined total hold 0.    *)
(* The year values are read on the processed years, the years C2 found to   *)
(* be multiplied.                                                           *)
C12_UnmatchedNull ==
    (SplitDone /\ err = "none") =>
        /\ Len(out_df) = Cardinality(PassIdx) + NumClasses * Cardinality(TargetIdx)
        /\ \A k \in {PrjKey(projected[i]) : i \in TargetIdx} :
            LET new == ReplacementRows(k)
            IN  /\ Len(new) = NumClasses * TargetsOf(k)
                /\ (k \notin ObservedKeys) =>
                    \A j \in 1..Len(new) : \A y \in 1..Len(year_list) :
                        IsNaN(new[j][year_list[y]])
                /\ (k \in ObservedKeys /\ IsZero(KeyTotal(k))) =>
                    \A j \in 1..Len(new) : \A y \in 1..Len(year_list) :
                        IsZero(new[j][year_list[y]])

----------------------------------------------------------------------------
(* The reshape (to_demeter.py).  A category string is the sequence of its  *)
(* pieces: each piece is the delimiter or a stretch of text without it.    *)

GCAM_IRR_NAME == "IRR"

GCAM_RFD_NAME == "RFD"

GCAM_LANDCLASS_DELIM == "_"

GCAM_BROKEN_LANDCLASSES == {"Tuber", "grass", "tree"}

\* x.split(GCAM_LANDCLASS_DELIM): the tokens between the delimiters, empty ones kept
RECURSIVE SplitFrom(_, _, _)
SplitFrom(x, cur, acc) ==
    IF x = <<>> THEN Append(acc, cur)
    ELSE IF Head(x) = GCAM_LANDCLASS_DELIM THEN SplitFrom(Tail(x), "", Append(acc, cur))
    ELSE SplitFrom(Tail(x), cur \o Head(x), acc)

Split(x) == SplitFrom(x, "", <<>>)

\* s[1] raises IndexError on a string without delimiter
parse_landclass_raises(x) == Len(Split(x)) < 2

parse_landclass(x) ==
    LET s == Split(x)
    IN  IF s[2] \in GCAM_BROKEN_LANDCLASSES
        THEN s[1] \o GCAM_LANDCLASS_DELIM \o s[2]
        ELSE s[1]

\* s[1], or s[2] after a broken land class, raises IndexError when the token is missing
parse_basin_name_raises(x) ==
    LET s == Split(x)
    IN  Len(s) < 2 \/ (s[2] \in GCAM_BROKEN_LANDCLASSES /\ Len(s) < 3)

parse_basin_name(x) ==
    LET s == Split(x)
    IN  IF s[2] \in GCAM_BROKEN_LANDCLASSES THEN s[3] ELSE s[2]

\* parse_use with the two tests in the other order
parse_use_rfd_first(x) ==
    LET s == Split(x)
    IN  IF GCAM_RFD_NAME \in Range(s) THEN GCAM_LANDCLASS_DELIM \o GCAM_RFD_NAME
        ELSE IF GCAM_IRR_NAME \in Range(s) THEN GCAM_LANDCLASS_DELIM \o GCAM_IRR_NAME
        ELSE ""

parse_use(x) ==
    LET s == Split(x)
    IN  IF GCAM_IRR_NAME \in Range(s) THEN GCAM_LANDCLASS_DELIM \o GCAM_IRR_NAME
        ELSE IF GCAM_RFD_NAME \in Range(s) THEN GCAM_LANDCLASS_DELIM \o GCAM_RFD_NAME
        ELSE ""

----------------------------------------------------------------------------
(* Configuration of a reshape run *)

\* l_yrs: the years the caller asks for
l_yrs == <<2010, 2015>>

region_name_field == "gcam_region_name"

basin_name_field == "glu_name"

output_to_csv == FALSE

\* build_regions_dict(): the region reference file as {name: id}
d_regions == ("USA" :> 1)

\* build_basin_dict(): the basin reference file as {glu_name: basin_id}
d_basins == ("AmazonBasin" :> 10)

\* Series.map(dict): the id of a name, nan for a name the dictionary lacks
MapDict(d, name) == IF name \in DOMAIN d THEN FromInt(d[name]) ELSE NaN

----------------------------------------------------------------------------
(* The rows a query returns.  MaxRawRows bounds the table, MaxTokens the   *)
(* tokens of a category string.                                            *)

MaxRawRows == 2

MaxTokens == 4

\* the category string of a token sequence: the tokens joined by the delimiter
RECURSIVE JoinTokens(_)
JoinTokens(t) ==
    IF Len(t) = 1 THEN (IF t[1] = "" THEN <<>> ELSE <<t[1]>>)
    ELSE (IF t[1] = "" THEN <<>> ELSE <<t[1]>>) \o <<GCAM_LANDCLASS_DELIM>> \o JoinTokens(Tail(t))

TokenWords == {"Corn", "biomass", "grass", "Tuber", "AmazonBasin", "IRR", "RFD", "hi", ""}

\* every category string of one to MaxTokens tokens
AllCategories == {JoinTokens(t) : t \in SeqUpTo(TokenWords, MaxTokens) \ {<<>>}}

\* the categories of the reshape runs: two management variants of one key, a basin
\* the lookup lacks, and a string without delimiter
ReshapeCategories ==
    {JoinTokens(<<"Corn", "AmazonBasin", "IRR", "hi">>),
     JoinTokens(<<"Corn", "AmazonBasin", "IRR", "lo">>),
     JoinTokens(<<"Corn", "LostR">>),
     JoinTokens(<<"Corn">>)}

RawRow(region, cat, year, v) ==
    [scenario |-> "Reference", region |-> region, landalloc |-> cat, Year |-> year,
     Units |-> "thous km2", value |-> FromInt(v)]

RawRows ==
    {RawRow(r, c, y, v) : r \in {"USA", "Atlantis"}, c \in ReshapeCategories,
                          y \in {2005, 2010, 2015}, v \in {1, 2}}

DecodeRows == {RawRow("USA", c, 2010, 1) : c \in AllCategories}

----------------------------------------------------------------------------
(* extract_land *)

\* df.loc[df['Year'].isin(l_yrs)], Units and scenario dropped
FilterYears(rows) == SelectSeq(rows, LAMBDA r : r.Year \in Range(l_yrs))

\* an apply() of parse_landclass or parse_basin_name raises on some row
DecodeRaises(rows) ==
    \/ \E i \in 1..Len(rows) : parse_landclass_raises(rows[i].landalloc)
    \/ \E i \in 1..Len(rows) : parse_basin_name_raises(rows[i].landalloc)

\* lines 149-164 on one row
DecodeRow(r) ==
    [gcam_region_name |-> r.region,
     glu_name         |-> parse_basin_name(r.landalloc),
     region_id        |-> MapDict(d_regions, r.region),
     metric_id        |-> MapDict(d_basins, parse_basin_name(r.landalloc)),
     landclass        |-> parse_landclass(r.landalloc) \o parse_use(r.landalloc),
     Year             |-> r.Year,
     value            |-> r.value]

Decode(rows) == [i \in 1..Len(rows) |-> DecodeRow(rows[i])]

\* the index columns of the pivot
IndexOf(r) ==
    [gcam_region_name |-> r.gcam_region_name, glu_name |-> r.glu_name,
     region_id |-> r.region_id, metric_id |-> r.metric_id, landclass |-> r.landclass]

RECURSIVE SortInts(_)
SortInts(S) ==
    IF S = {} THEN <<>>
    ELSE LET m == CHOOSE k \in S : \A j \in S : k <= j
         IN  <<m>> \o SortInts(S \ {m})

\* the groupby of pivot_table leaves out the rows with nan in an index column
GroupedRows(rows) ==
    SelectSeq(rows, LAMBDA r : ~IsNaN(r.region_id) /\ ~IsNaN(r.metric_id))

\* pd.pivot_table(values='value', index=[...], columns='Year', fill_value=0,
\* aggfunc=np.sum) and reset_index(); the order of the rows is left out
PivotTable(rows) ==
    LET kept == GroupedRows(rows)
        cols == SortInts({kept[i].Year : i \in 1..Len(kept)})
        Cell(k, y) ==
            LET g == SelectSeq(kept, LAMBDA r : IndexOf(r) = k /\ r.Year = y)
            IN  IF g = <<>> THEN Zero ELSE SumCells([i \in 1..Len(g) |-> g[i].value])
    IN  [columns |-> cols,
         rows    |-> {[index |-> k, cells |-> [y \in Range(cols) |-> Cell(k, y)]] :
                        k \in {IndexOf(kept[i]) : i \in 1..Len(kept)}}]

InitReshape ==
    /\ pc = "init"
    /\ impl = "none"
    /\ observed = <<>>
    /\ projected = <<>>
    /\ year_list = <<>>
    /\ obs_df = <<>>
    /\ out_df = <<>>
    /\ raw \in SeqUpTo(RawRows, MaxRawRows) \ {<<>>}
    /\ decoded = <<>>
    /\ piv = NoTable
    /\ err = "none"

InitDecode ==
    /\ pc = "init"
    /\ impl = "none"
    /\ observed = <<>>
    /\ projected = <<>>
    /\ year_list = <<>>
    /\ obs_df = <<>>
    /\ out_df = <<>>
    /\ raw \in {<<r>> : r \in DecodeRows}
    /\ decoded = <<>>
    /\ piv = NoTable
    /\ err = "none"

\* a run that skips the rows it cannot decode instead of raising
ExtractLandSkipsMalformed ==
    /\ pc = "init"
    /\ impl = "none"
    /\ pc' = "done"
    /\ impl' = "extract_land"
    /\ LET rows == SelectSeq(FilterYears(raw), LAMBDA r : ~DecodeRaises(<<r>>))
       IN  /\ err' = err
           /\ decoded' = Decode(rows)
           /\ piv' = PivotTable(Decode(rows))
    /\ UNCHANGED <<observed, projected, year_list, obs_df, out_df, raw>>

\* to_demeter.py, lines 142-184: an exception leaves no frame behind
ExtractLand ==
    /\ pc = "init"
    /\ impl = "none"
    /\ pc' = "done"
    /\ impl' = "extract_land"
    /\ LET rows == FilterYears(raw)
       IN  IF DecodeRaises(rows)
           THEN /\ err' = "IndexError"
                /\ decoded' = <<>>
                /\ piv' = NoTable
           ELSE /\ err' = err
                /\ decoded' = Decode(rows)
                /\ piv' = PivotTable(Decode(rows))
    /\ UNCHANGED <<observed, projected, year_list, obs_df, out_df, raw>>

NextReshape == ExtractLand

\* runs on tables of up to MaxRawRows rows, and on one row of every category string
SpecReshape == (InitReshape \/ InitDecode) /\ [][NextReshape]_vars

----------------------------------------------------------------------------
(* Vocabulary of the claims about the reshape *)

ReshapeDone == pc = "done" /\ impl = "extract_land"

\* the rows that reach the decoder
Filtered == FilterYears(raw)

\* too few tokens for the decoder's indexing
TooFewTokens(x) ==
    LET t == Split(x)
    IN  Len(t) = 1 \/ (Len(t) = 2 /\ t[2] \in {"Tuber", "grass", "tree"})

SomeMalformed == \E i \in 1..Len(Filtered) : TooFewTokens(Filtered[i].landalloc)

\* the decoded rows of an index tuple and a year
RowsOf(k, y) == SelectSeq(decoded, LAMBDA r : IndexOf(r) = k /\ r.Year = y)

SumOf(k, y) == SumCells([i \in 1..Len(RowsOf(k, y)) |-> RowsOf(k, y)[i].value])

PivRowsOf(k) == {r \in piv.rows : r.index = k}

HasNullId(r) == IsNaN(r.region_id) \/ IsNaN(r.metric_id)

----------------------------------------------------------------------------
(* C6: for every category string with enough tokens t (split on '_'): when  *)
(* t[1] is Tuber, grass or tree the base is t[0]_t[1] and the sub-basin     *)
(* t[2], otherwise the base is t[0] and the sub-basin t[1]; the suffix is   *)
(* _IRR if a token is IRR, else _RFD if a token is RFD, else empty; the     *)
(* landclass is base + suffix.  (Python indices; Split counts from 1.)      *)
C6_Decoder ==
    ReshapeDone =>
        (~SomeMalformed =>
            /\ err = "none"
            /\ Len(decoded) = Len(Filtered)
            /\ \A i \in 1..Len(Filtered) :
                LET t        == Split(Filtered[i].landalloc)
                    compound == t[2] \in {"Tuber", "grass", "tree"}
                    base     == IF compound THEN t[1] \o "_" \o t[2] ELSE t[1]
                    sub      == IF compound THEN t[3] ELSE t[2]
                    suffix   == IF \E j \in 1..Len(t) : t[j] = "IRR" THEN "_IRR"
                                ELSE IF \E j \in 1..Len(t) : t[j] = "RFD" THEN "_RFD"
                                ELSE ""
                IN  /\ decoded[i].landclass = base \o suffix
                    /\ decoded[i].glu_name = sub)

\* C6 witness: 'biomass_grass_AmazonBasin_IRR' decoded to 'biomass_grass_IRR', 'AmazonBasin'
C6_Witness ==
    /\ ReshapeDone /\ err = "none"
    /\ raw[1].landalloc = <<"biomass", "_", "grass", "_", "AmazonBasin", "_", "IRR">>
    /\ Len(decoded) = 1
    /\ decoded[1].landclass = "biomass_grass_IRR"
    /\ decoded[1].glu_name = "AmazonBasin"

----------------------------------------------------------------------------
(* C7: when a category string that reaches the decoder has too few tokens   *)
(* (one token, or two with the second a compound-base token), the run       *)
(* raises, keeps no decoded row and returns no output table.                *)
C7_MalformedFails ==
    ReshapeDone =>
        (SomeMalformed => (err # "none" /\ decoded = <<>> /\ piv = NoTable))

\* C7 witness: 'biomass_grass', where parse_landclass succeeds and parse_basin_name raises
C7_Witness ==
    /\ ReshapeDone
    /\ raw[1].landalloc = <<"biomass", "_", "grass">>
    /\ ~parse_landclass_raises(raw[1].landalloc)
    /\ err = "IndexError"
    /\ piv = NoTable

----------------------------------------------------------------------------
(* C8 as claimed, for the runs whose output has a row: the output has       *)
(* exactly one row per distinct key tuple (region name, sub-basin name,     *)
(* region-id, sub-basin-id, landclass) of the year-filtered decoded rows,   *)
(* and each of its year cells is the sum of the values of the rows of that  *)
(* key and year.                                                            *)
C8_OneRowPerKey ==
    (ReshapeDone /\ err = "none" /\ piv.rows # {}) =>
        LET keys == {IndexOf(decoded[i]) : i \in 1..Len(decoded)}
        IN  /\ Cardinality(piv.rows) = Cardinality(keys)
            /\ \A k \in keys :
                /\ Cardinality(PivRowsOf(k)) = 1
                /\ \A r \in PivRowsOf(k) : \A y \in Range(piv.columns) :
                    r.cells[y] = SumOf(k, y)

----------------------------------------------------------------------------
(* C9 as claimed, for the runs whose output has a row: every requested year *)
(* is a column of the output, also when no input row carries it; no other   *)
(* year is a column; a key without input row for a year holds 0 there.      *)
C9_YearColumns ==
    (ReshapeDone /\ err = "none" /\ piv.rows # {}) =>
        /\ \A y \in Range(l_yrs) : y \in Range(piv.columns)
        /\ \A y \in Range(piv.columns) : y \in Range(l_yrs)
        /\ \A r \in piv.rows : \A y \in Range(piv.columns) :
            (RowsOf(r.index, y) = <<>>) => r.cells[y] = Zero

----------------------------------------------------------------------------
(* C10 as claimed, for the runs whose output has a row: a row whose region  *)
(* or sub-basin the lookups lack raises no error, gets a null id, and its   *)
(* allocation is in the output, in a row that carries the null id.          *)
C10_UnmappedKept ==
    ReshapeDone =>
        /\ (~SomeMalformed => err = "none")
        /\ (err = "none" /\ piv.rows # {}) =>
            \A i \in 1..Len(decoded) :
                HasNullId(decoded[i]) =>
                    \E r \in PivRowsOf(IndexOf(decoded[i])) :
                        /\ decoded[i].Year \in Range(piv.columns)
                        /\ r.cells[decoded[i].Year] = SumOf(r.index, decoded[i].Year)

====
